---- MODULE Spec2Model ----
(***************************************************************************)
(* Model of the YouTube Audio Drive Bot: the update dispatch of main(),    *)
(* the handlers of bot.py and the two services they drive.                 *)
(* Strings the code inspects (message texts, titles, file names) are       *)
(* sequences of one-character strings; message texts the bot writes are    *)
(* sequences of lines.                                                     *)
(***************************************************************************)
EXTENDS Integers, Sequences, FiniteSets, TLC

(* ------------------------------ bounds ------------------------------- *)
\* number of updates the dispatcher takes in one behaviour
MaxRequests == 2

(* --------------------------- string helpers -------------------------- *)
UpperCase == <<"A","B","C","D","E","F","G","H","I","J","K","L","M",
               "N","O","P","Q","R","S","T","U","V","W","X","Y","Z">>
LowerCase == <<"a","b","c","d","e","f","g","h","i","j","k","l","m",
               "n","o","p","q","r","s","t","u","v","w","x","y","z">>
Digits == {"0","1","2","3","4","5","6","7","8","9"}

Range(s) == {s[i] : i \in DOMAIN s}

\* str.lower() on one character
LowerChar(c) ==
    IF \E i \in DOMAIN UpperCase : UpperCase[i] = c
    THEN LowerCase[CHOOSE i \in DOMAIN UpperCase : UpperCase[i] = c]
    ELSE c

\* lower that leaves the text as it is
lowerIdentity(s) == s

\* str.lower()
lower(s) == [i \in DOMAIN s |-> LowerChar(s[i])]

\* c.isalnum()
isalnum(c) == c \in Range(UpperCase) \cup Range(LowerCase) \cup Digits

\* pattern in s
Contains(s, pattern) ==
    \E i \in 1..(Len(s) - Len(pattern) + 1) :
        SubSeq(s, i, i + Len(pattern) - 1) = pattern

\* s.startswith(prefix)
StartsWith(s, prefix) ==
    /\ Len(prefix) <= Len(s)
    /\ SubSeq(s, 1, Len(prefix)) = prefix

\* s.endswith(suffix)
EndsWith(s, suffix) ==
    /\ Len(suffix) <= Len(s)
    /\ SubSeq(s, Len(s) - Len(suffix) + 1, Len(s)) = suffix

\* str.strip(): drop leading and trailing blanks
strip(s) ==
    LET nonBlank == {i \in DOMAIN s : s[i] # " "}
    IN  IF nonBlank = {} THEN <<>>
        ELSE LET first == CHOOSE i \in nonBlank : \A j \in nonBlank : i <= j
                 last  == CHOOSE i \in nonBlank : \A j \in nonBlank : j <= i
             IN  SubSeq(s, first, last)

\* "".join(c for c in s if keep(c))
RECURSIVE FilterSafe(_)
FilterSafe(s) ==
    IF s = <<>> THEN <<>>
    ELSE IF isalnum(Head(s)) \/ Head(s) \in {" ", "-", "_"}
         THEN <<Head(s)>> \o FilterSafe(Tail(s))
         ELSE FilterSafe(Tail(s))

(* --------------------------- URL classifier -------------------------- *)
youtube_patterns == <<
    <<"y","o","u","t","u","b","e",".","c","o","m","/","w","a","t","c","h">>,
    <<"y","o","u","t","u",".","b","e","/">>,
    <<"y","o","u","t","u","b","e",".","c","o","m","/","s","h","o","r","t","s","/">>,
    <<"y","o","u","t","u","b","e",".","c","o","m","/","v","/">>,
    <<"y","o","u","t","u","b","e",".","c","o","m","/","e","m","b","e","d","/">> >>

is_youtube_url(url) ==
    \E k \in DOMAIN youtube_patterns : Contains(lower(url), youtube_patterns[k])


(* ------------------------------ inputs ------------------------------- *)
\* message texts users send
TxtShort == <<" ","h","t","t","p",":","/","/","Y","o","u","T","u",".","b","e","/","x"," ">>
TxtOther == <<"h","t","t","p","s",":","/","/","e",".","c","o","m">>
TxtBare  == <<"y","o","u","t","u",".","b","e","/","x">>
TxtHello == <<"h","i">>
TxtStart == <<"/","s","t","a","r","t">>
TxtHelp  == <<"/","h","e","l","p">>
TxtSlash == <<"/","x">>

Texts == {TxtShort, TxtOther, TxtBare, TxtHello, TxtStart, TxtHelp, TxtSlash}

\* file names in the downloads directory
NameAb  == <<"a","b",".","m","p","3">>
NameAbc == <<"a","b","c",".","m","p","3">>
NameX   == <<"x",".","m","p","3">>
NamePdf == <<"d",".","p","d","f">>
Mp3Names == {NameAb, NameAbc, NameX}
DocNames == {NameAb, NamePdf}

\* titles the extraction tool reports
TitleAb == <<"a","b">>
TitleZz == <<"z","z">>
Titles == {TitleAb, TitleZz}

\* sizes in bytes of the files a request handles
MiB == 1024 * 1024
Sizes == {10 * MiB, 50 * MiB, 50 * MiB + 1, 120 * MiB}

\* the absent value of file_path, document, text
None == <<>>

\* the updates the transport delivers: a text message or a document message
Updates ==
    [kind : {"text"}, text : Texts, file_name : {None}, file_size : {0}]
    \cup
    [kind : {"document"}, text : {None}, file_name : DocNames, file_size : {5 * MiB}]


(* --------------------------- message texts --------------------------- *)
\* texts are sequences of lines; interpolated sizes and links are left out
welcome_message == <<"welcome to the media and files bot">>
help_text == <<"how to use">>
MsgUnknown == <<"send me a YouTube link or a file to upload", "use /help for help">>
MsgProcessing == <<"downloading and converting the video, wait a little">>
\* MsgDownloadFailed without the interpolated reason
MsgDownloadFailedNoReason(reason) == <<"download failed:">>
MsgDownloadFailed(reason) == <<"download failed:">> \o reason
MsgSending == <<"sending the file">>
MsgLargeDriveOnly == <<"the file is large, it will be uploaded to Drive only">>
MsgUploading == <<"uploading to Google Drive">>
MsgBoth == <<"done successfully", "the file was sent to you", "Drive link">>
MsgDriveOnly == <<"uploaded to Drive", "the file is large", "click here to download">>
\* "A" if telegram_sent else "B" "C": the adjacent literals B and C are one
\* literal, so the conditional chooses between A and B+C
MsgUploadFailed(sent) ==
    IF sent THEN <<"the file was sent">>
    ELSE <<"upload failed">> \o <<"upload to Drive failed (check the settings)">>
MsgSentOk == <<"the file was sent successfully">>
MsgTooLarge == <<"the file is too large", "add Drive settings to upload large files">>
MsgError(e) == <<"an error occurred:", e>>
MsgDocDownloading == <<"downloading the document", "size">>
MsgDocUploaded == <<"the file was uploaded successfully", "file name", "Drive link">>
MsgDocUploadFailed == <<"upload to Drive failed", "check the connection settings">>
MsgDriveDisabled == <<"Drive is not enabled, add GOOGLE_DRIVE_FOLDER_ID">>

(* ------------------------- dispatch of main() ------------------------ *)
Slash == <<"/">>
HttpScheme == <<"h","t","t","p",":","/","/">>
HttpsScheme == <<"h","t","t","p","s",":","/","/">>

\* the text up to the first blank
FirstWord(s) ==
    LET blanks == {i \in DOMAIN s : s[i] = " "}
    IN  IF blanks = {} THEN s
        ELSE SubSeq(s, 1, (CHOOSE i \in blanks : \A j \in blanks : i <= j) - 1)

\* CommandHandler(name)
IsCommand(u, name) ==
    /\ u.kind = "text"
    /\ FirstWord(u.text) = Slash \o name

\* filters.COMMAND
IsAnyCommand(u) ==
    /\ u.kind = "text"
    /\ StartsWith(u.text, Slash)
    /\ Len(FirstWord(u.text)) > 1

\* filters.TEXT & filters.Regex(r'https?://')
url_filter(u) ==
    /\ u.kind = "text"
    /\ u.text # None
    /\ (Contains(u.text, HttpScheme) \/ Contains(u.text, HttpsScheme))

\* the first handler of main() whose filter accepts the update
Route(u) ==
    IF IsCommand(u, <<"s","t","a","r","t">>) THEN "start"
    ELSE IF IsCommand(u, <<"h","e","l","p">>) THEN "help_command"
    ELSE IF url_filter(u) THEN "handle_youtube_link"
    ELSE IF u.kind = "document" THEN "handle_document"
    ELSE IF u.kind = "text" /\ u.text # None /\ ~IsAnyCommand(u) THEN "handle_unknown"
    ELSE "none"

(* ------------------------------- state ------------------------------- *)
VARIABLES
    GOOGLE_DRIVE_FOLDER_ID, \* "" when the folder identifier is not configured
    pc,                     \* position of the handler that is running
    handler,                \* the handler the current update was routed to
    update,                 \* the update being handled
    nreq,                   \* updates dispatched so far
    disk,                   \* names of the files in downloads/
    newer,                  \* files whose ctime exceeds the directory's
    chat,                   \* messages the bot sent in reply to this update
    processing_msg,         \* index in chat of the progress message, 0 if none
    file_path,              \* file_path (local_path in handle_document)
    result,                 \* title or failure reason
    file_size,              \* size in bytes of the local file
    telegram_sent,
    file_id,                \* "None" or the identifier upload_to_drive returned
    exc,                    \* text of the exception raised last, "" if none
    caught,                 \* the except clause of the handler was entered
    escaped,                \* an exception left the handler
    log,                    \* calls the handler made for this update, in order
    call,                   \* a service function applied on its own: its
                            \* arguments and what it returned
    token_pickle,           \* the credential cached in token.pickle
    credentials_file        \* the client-secret file exists

vars == <<GOOGLE_DRIVE_FOLDER_ID, pc, handler, update, nreq, disk, newer, chat,
          processing_msg, file_path, result, file_size, telegram_sent, file_id,
          exc, caught, escaped, log, call, token_pickle, credentials_file>>

\* what a handler's locals hold before it assigns them
locals == <<processing_msg, file_path, result, file_size, telegram_sent, file_id>>

NoUpdate == [kind |-> "none", text |-> None, file_name |-> None, file_size |-> 0]

Event(op, ok, text) == [op |-> op, ok |-> ok, text |-> text]

\* a credential: whether it holds an access token, whether its expiry has
\* passed, whether it holds a refresh token; present is false for creds = None
Absent == [present |-> FALSE, token |-> FALSE, expired |-> FALSE, refresh_token |-> FALSE]
Credential(token, expired, refresh_token) ==
    [present |-> TRUE, token |-> token, expired |-> expired,
     refresh_token |-> refresh_token]

\* the caches a behaviour can start with: none, a valid credential, an
\* expired one with and without a refresh token
InitialCaches ==
    {Absent, Credential(TRUE, FALSE, TRUE), Credential(TRUE, TRUE, TRUE),
     Credential(TRUE, TRUE, FALSE)}

\* no service function is applied on its own while the bot runs
NoCall == [fn |-> "none"]

Init ==
    /\ GOOGLE_DRIVE_FOLDER_ID \in {"", "folder"}
    /\ pc = "idle"
    /\ handler = "none"
    /\ update = NoUpdate
    /\ nreq = 0
    /\ disk = {}
    /\ newer = {}
    /\ chat = <<>>
    /\ processing_msg = 0
    /\ file_path = None
    /\ result = None
    /\ file_size = 0
    /\ telegram_sent = FALSE
    /\ file_id = "None"
    /\ exc = ""
    /\ caught = FALSE
    /\ escaped = FALSE
    /\ log = <<>>
    /\ call = NoCall
    /\ token_pickle \in InitialCaches
    /\ credentials_file \in BOOLEAN
    \* the cache and the client-secret file are read only with a folder
    /\ GOOGLE_DRIVE_FOLDER_ID = "" => (token_pickle = Absent /\ ~credentials_file)

\* the first position of each handler
Entry(h) ==
    CASE h = "start" -> "start"
      [] h = "help_command" -> "help_command"
      [] h = "handle_youtube_link" -> "yt_entry"
      [] h = "handle_document" -> "doc_entry"
      [] h = "handle_unknown" -> "handle_unknown"
      [] OTHER -> "done"

\* the dispatcher takes the next update and calls the first matching handler.
\* The application is built without concurrent updates and the handlers call
\* download_audio and upload_to_drive synchronously inside the coroutine, so
\* the next update is taken only when the running handler has returned.
Dispatch ==
    /\ pc \in {"idle", "done"}
    /\ nreq < MaxRequests
    /\ \E u \in Updates :
        /\ update' = u
        /\ handler' = Route(u)
        /\ pc' = Entry(Route(u))
    /\ nreq' = nreq + 1
    /\ processing_msg' = 0
    /\ file_path' = None
    /\ result' = None
    /\ file_size' = 0
    /\ telegram_sent' = FALSE
    /\ file_id' = "None"
    /\ exc' = ""
    /\ caught' = FALSE
    /\ escaped' = FALSE
    /\ log' = <<>>
    /\ chat' = <<>>
    /\ UNCHANGED <<GOOGLE_DRIVE_FOLDER_ID, credentials_file, token_pickle, call, disk, newer>>

(* ------------------------- transport primitives ---------------------- *)
\* edit_text with the status sent as a new message instead of an edit
edit_text_as_reply(text, next, except) ==
    \/ /\ chat' = Append(chat, [kind |-> "text", text |-> text])
       /\ log' = Append(log, Event("edit_text", TRUE, text))
       /\ pc' = next
       /\ UNCHANGED <<exc, caught>>
    \/ /\ log' = Append(log, Event("edit_text", FALSE, text))
       /\ exc' = "TimedOut"
       /\ caught' = TRUE
       /\ pc' = except
       /\ UNCHANGED chat

\* update.message.reply_text(text) of a handler without a try block:
\* the message is created, or the call raises and the exception leaves
reply_text(text, next) ==
    \/ /\ chat' = Append(chat, [kind |-> "text", text |-> text])
       /\ log' = Append(log, Event("reply_text", TRUE, text))
       /\ pc' = next
       /\ UNCHANGED <<exc, escaped>>
    \/ /\ log' = Append(log, Event("reply_text", FALSE, text))
       /\ exc' = "TimedOut"
       /\ escaped' = TRUE
       /\ pc' = "done"
       /\ UNCHANGED chat

\* processing_msg.edit_text(text) inside the try block of a handler:
\* the message is edited in place, or the call raises into the except clause
edit_text(text, next, except) ==
    \/ /\ chat' = [chat EXCEPT ![processing_msg].text = text]
       /\ log' = Append(log, Event("edit_text", TRUE, text))
       /\ pc' = next
       /\ UNCHANGED <<exc, caught>>
    \/ /\ log' = Append(log, Event("edit_text", FALSE, text))
       /\ exc' = "TimedOut"
       /\ caught' = TRUE
       /\ pc' = except
       /\ UNCHANGED chat

(* ---------------------- start, help, handle_unknown ------------------ *)
start ==
    /\ pc = "start"
    /\ reply_text(welcome_message, "done")
    /\ UNCHANGED <<GOOGLE_DRIVE_FOLDER_ID, credentials_file, token_pickle, call, handler, update, nreq, disk, newer,
                   locals, caught>>

help_command ==
    /\ pc = "help_command"
    /\ reply_text(help_text, "done")
    /\ UNCHANGED <<GOOGLE_DRIVE_FOLDER_ID, credentials_file, token_pickle, call, handler, update, nreq, disk, newer,
                   locals, caught>>

handle_unknown ==
    /\ pc = "handle_unknown"
    /\ reply_text(MsgUnknown, "done")
    /\ UNCHANGED <<GOOGLE_DRIVE_FOLDER_ID, credentials_file, token_pickle, call, handler, update, nreq, disk, newer,
                   locals, caught>>


(* ---------------------------- download_audio ------------------------- *)
Mp3Ext == <<".","m","p","3">>

\* what ydl.extract_info(url, download=True) can do to a directory holding
\* d, of which nw are newer than the directory: raise, report no info, or
\* report a title, having written one file or none
extract_info(d, nw) ==
    {[raised |-> r, info |-> FALSE, title |-> None, disk |-> d, newer |-> nw,
      wrote |-> None] :
        r \in {"DownloadError", "Exception", ""}}
    \cup
    {[raised |-> "", info |-> TRUE, title |-> t, disk |-> d \cup {w},
      newer |-> IF n THEN {w} ELSE {}, wrote |-> w] :
        t \in Titles, w \in Mp3Names, n \in BOOLEAN}
    \cup
    {[raised |-> "", info |-> TRUE, title |-> t, disk |-> d, newer |-> nw,
      wrote |-> None] :
        t \in Titles}

\* title[:20]
Prefix20(title) == SubSeq(title, 1, IF Len(title) < 20 THEN Len(title) ELSE 20)

\* the values download_audio can return after the tool run o; os.listdir
\* yields the directory in arbitrary order, so any matching file can be first
download_audio(o) ==
    IF o.raised = "DownloadError"
    THEN {[file_path |-> None, result |-> <<"Download error: tool failed">>]}
    ELSE IF o.raised = "Exception"
    THEN {[file_path |-> None, result |-> <<"Unexpected error: tool crashed">>]}
    ELSE IF ~o.info
    THEN {[file_path |-> None, result |-> <<"Failed to extract video information">>]}
    ELSE
      LET title == o.title
          safe_title == strip(FilterSafe(title))
          matching == {file \in o.disk :
                          EndsWith(file, Mp3Ext) /\ Contains(file, Prefix20(title))}
          output_paths == IF matching = {} THEN {safe_title \o Mp3Ext} ELSE matching
          recent == {file \in o.disk : EndsWith(file, Mp3Ext) /\ file \in o.newer}
      IN  UNION {
            IF output_path \in o.disk
            THEN {[file_path |-> output_path, result |-> title]}
            ELSE IF recent # {}
            THEN {[file_path |-> full_path, result |-> title] : full_path \in recent}
            ELSE {[file_path |-> None,
                   result |-> <<"Audio file not found after download">>]}
            : output_path \in output_paths}

(* --------------------------- get_drive_service ----------------------- *)
\* creds.valid
valid(creds) == creds.token /\ ~creds.expired

\* what the handler's log tells about the credential that was loaded
CredText(creds) ==
    IF ~creds.present THEN <<"absent">>
    ELSE <<IF valid(creds) THEN "valid"
           ELSE IF creds.expired THEN "expired" ELSE "no token",
           IF creds.refresh_token THEN "refresh_token" ELSE "no refresh_token">>

\* lines 31-36: the cached credential is loaded when token.pickle exists; the
\* load can raise, and the expiry of a cached token can have passed since
GdsLoad(cache) ==
    IF ~cache.present
    THEN {[st |-> "ok", creds |-> Absent,
           calls |-> <<Event("token_cache", TRUE, CredText(Absent))>>]}
    ELSE {[st |-> "raised", creds |-> Absent,
           calls |-> <<Event("token_cache", FALSE, <<"unreadable">>)>>]}
         \cup
         {[st |-> "ok", creds |-> [cache EXCEPT !.expired = e],
           calls |-> <<Event("token_cache", TRUE, CredText([cache EXCEPT !.expired = e]))>>] :
            e \in {cache.expired} \cup (IF cache.token THEN {TRUE} ELSE {})}

\* GdsAuth that marks every credential for a write of the cache, a valid
\* one included
GdsAuthAlwaysWrites(creds, secrets) ==
    IF creds.present /\ valid(creds)
    THEN {[st |-> "ok", creds |-> creds, write |-> TRUE, calls |-> <<>>]}
    ELSE IF creds.present /\ creds.expired /\ creds.refresh_token
    THEN {[st |-> "ok", creds |-> [creds EXCEPT !.token = TRUE, !.expired = FALSE],
           write |-> TRUE, calls |-> <<Event("refresh", TRUE, None)>>],
          [st |-> "raised", creds |-> creds, write |-> FALSE,
           calls |-> <<Event("refresh", FALSE, None)>>]}
    ELSE IF ~secrets
    THEN {[st |-> "none", creds |-> creds, write |-> FALSE,
           calls |-> <<Event("client_secrets", FALSE, <<"missing">>)>>]}
    ELSE {[st |-> "raised", creds |-> creds, write |-> FALSE,
           calls |-> <<Event("client_secrets", FALSE, <<"unreadable">>)>>],
          [st |-> "raised", creds |-> creds, write |-> FALSE,
           calls |-> <<Event("client_secrets", TRUE, None),
                       Event("run_local_server", FALSE, None)>>],
          [st |-> "ok", creds |-> Credential(TRUE, FALSE, TRUE), write |-> TRUE,
           calls |-> <<Event("client_secrets", TRUE, None),
                       Event("run_local_server", TRUE, None)>>]}

\* GdsAuth that never refreshes: every credential that is not valid goes
\* through the interactive authorization
GdsAuthNeverRefresh(creds, secrets) ==
    IF creds.present /\ valid(creds)
    THEN {[st |-> "ok", creds |-> creds, write |-> FALSE, calls |-> <<>>]}
    ELSE IF ~secrets
    THEN {[st |-> "none", creds |-> creds, write |-> FALSE,
           calls |-> <<Event("client_secrets", FALSE, <<"missing">>)>>]}
    ELSE {[st |-> "ok", creds |-> Credential(TRUE, FALSE, TRUE), write |-> TRUE,
           calls |-> <<Event("client_secrets", TRUE, None),
                       Event("run_local_server", TRUE, None)>>]}

\* lines 39-49: a credential that is not valid is refreshed when it is
\* expired and has a refresh token; otherwise the interactive authorization
\* runs, unless the client-secret file is missing and None is returned
GdsAuth(creds, secrets) ==
    IF creds.present /\ valid(creds)
    THEN {[st |-> "ok", creds |-> creds, write |-> FALSE, calls |-> <<>>]}
    ELSE IF creds.present /\ creds.expired /\ creds.refresh_token
    THEN {[st |-> "ok", creds |-> [creds EXCEPT !.token = TRUE, !.expired = FALSE],
           write |-> TRUE, calls |-> <<Event("refresh", TRUE, None)>>],
          [st |-> "raised", creds |-> creds, write |-> FALSE,
           calls |-> <<Event("refresh", FALSE, None)>>]}
    ELSE IF ~secrets
    THEN {[st |-> "none", creds |-> creds, write |-> FALSE,
           calls |-> <<Event("client_secrets", FALSE, <<"missing">>)>>]}
    ELSE {[st |-> "raised", creds |-> creds, write |-> FALSE,
           calls |-> <<Event("client_secrets", FALSE, <<"unreadable">>)>>],
          [st |-> "raised", creds |-> creds, write |-> FALSE,
           calls |-> <<Event("client_secrets", TRUE, None),
                       Event("run_local_server", FALSE, None)>>],
          [st |-> "ok", creds |-> Credential(TRUE, FALSE, TRUE), write |-> TRUE,
           calls |-> <<Event("client_secrets", TRUE, None),
                       Event("run_local_server", TRUE, None)>>]}

\* GdsDump that goes on after a failed write of the cache
GdsDumpIgnoresFailure(a, cache) ==
    IF a.st # "ok" \/ ~a.write
    THEN {[st |-> a.st, cache |-> cache, calls |-> a.calls]}
    ELSE {[st |-> "ok", cache |-> a.creds,
           calls |-> a.calls \o <<Event("pickle.dump", TRUE, None)>>],
          [st |-> "ok", cache |-> cache,
           calls |-> a.calls \o <<Event("pickle.dump", FALSE, None)>>]}

\* lines 51-53: after a refresh or an authorization the credential is
\* written to token.pickle; the write can raise
GdsDump(a, cache) ==
    IF a.st # "ok" \/ ~a.write
    THEN {[st |-> a.st, cache |-> cache, calls |-> a.calls]}
    ELSE {[st |-> "ok", cache |-> a.creds,
           calls |-> a.calls \o <<Event("pickle.dump", TRUE, None)>>],
          [st |-> "raised", cache |-> cache,
           calls |-> a.calls \o <<Event("pickle.dump", FALSE, None)>>]}

\* line 55: build('drive', 'v3', credentials=creds) returns the service or
\* raises
GdsBuild(w) ==
    IF w.st # "ok"
    THEN {w}
    ELSE {[st |-> "ok", cache |-> w.cache,
           calls |-> w.calls \o <<Event("build", TRUE, None)>>],
          [st |-> "raised", cache |-> w.cache,
           calls |-> w.calls \o <<Event("build", FALSE, None)>>]}

\* what get_drive_service(credentials_path) can do with the cache and the
\* client-secret file: return a service ("ok"), return None or raise; with
\* the cache it leaves and the calls it made
get_drive_service(cache, secrets) ==
    UNION {
        IF l.st # "ok"
        THEN {[st |-> l.st, cache |-> cache, calls |-> l.calls]}
        ELSE UNION {
            UNION {
                {[st |-> b.st, cache |-> b.cache, calls |-> l.calls \o b.calls] :
                    b \in GdsBuild(w)}
                : w \in GdsDump(a, cache)}
            : a \in GdsAuth(l.creds, secrets)}
        : l \in GdsLoad(cache)}

(* ---------------------------- upload_to_drive ------------------------ *)
\* what upload_to_drive can return and leave in the cache: every exception,
\* a missing local file included, is caught and turned into None
upload_to_drive(path, d, cache, secrets) ==
    UNION {
        IF g.st # "ok"
        THEN {[file_id |-> "None", cache |-> g.cache, calls |-> g.calls]}
        ELSE IF path \notin d
        THEN {[file_id |-> "None", cache |-> g.cache,
               calls |-> g.calls \o <<Event("MediaFileUpload", FALSE, None)>>]}
        ELSE {[file_id |-> "None", cache |-> g.cache,
               calls |-> g.calls \o <<Event("MediaFileUpload", TRUE, None),
                                      Event("files.create", FALSE, None)>>],
              [file_id |-> "file1", cache |-> g.cache,
               calls |-> g.calls \o <<Event("MediaFileUpload", TRUE, None),
                                      Event("files.create", TRUE, None)>>]}
        : g \in get_drive_service(cache, secrets)}

(* -------------------------- handle_youtube_link ---------------------- *)
\* url = update.message.text.strip()
url == strip(update.text)

\* line 80: a text that is not a supported link is ignored
YtIgnore ==
    /\ pc = "yt_entry"
    /\ ~is_youtube_url(url)
    /\ pc' = "done"
    /\ UNCHANGED <<GOOGLE_DRIVE_FOLDER_ID, credentials_file, token_pickle, call, handler, update, nreq, disk, newer,
                   chat, locals, exc, caught, escaped, log>>

\* line 84: the progress message is created, outside the try block
YtReply ==
    /\ pc = "yt_entry"
    /\ is_youtube_url(url)
    /\ reply_text(MsgProcessing, "yt_download")
    /\ processing_msg' = IF escaped' THEN processing_msg ELSE Len(chat')
    /\ UNCHANGED <<GOOGLE_DRIVE_FOLDER_ID, credentials_file, token_pickle, call, handler, update, nreq, disk, newer,
                   file_path, result, file_size, telegram_sent, file_id, caught>>

\* the record of a file written into downloads/: name is the file, and the
\* write is fresh when no file of that name was in the directory d
Written(name, d) ==
    IF name = None THEN <<>> ELSE <<Event("write", name \notin d, name)>>

\* lines 90-92: download_audio(url, "downloads")
YtDownload ==
    /\ pc = "yt_download"
    /\ \E o \in extract_info(disk, newer) :
        \E r \in download_audio(o) :
            /\ disk' = o.disk
            /\ newer' = o.newer
            /\ file_path' = r.file_path
            /\ result' = r.result
            /\ log' = log \o Written(o.wrote, disk)
                          \o <<Event("download_audio", r.file_path # None, r.result)>>
            /\ pc' = IF r.file_path = None THEN "yt_download_failed" ELSE "yt_sending"
    /\ UNCHANGED <<GOOGLE_DRIVE_FOLDER_ID, credentials_file, token_pickle, call, handler, update, nreq, chat,
                   processing_msg, file_size, telegram_sent, file_id, exc,
                   caught, escaped>>

\* lines 93-94: the failure reason is shown and the handler returns
YtDownloadFailed ==
    /\ pc = "yt_download_failed"
    /\ edit_text(MsgDownloadFailed(result), "done", "yt_except")
    /\ UNCHANGED <<GOOGLE_DRIVE_FOLDER_ID, credentials_file, token_pickle, call, handler, update, nreq, disk, newer,
                   locals, escaped>>

\* line 97
YtSending ==
    /\ pc = "yt_sending"
    /\ edit_text(MsgSending, "yt_getsize", "yt_except")
    /\ UNCHANGED <<GOOGLE_DRIVE_FOLDER_ID, credentials_file, token_pickle, call, handler, update, nreq, disk, newer,
                   locals, escaped>>

\* FitsTelegram with a threshold that lets every file through
FitsTelegramAlways(size) == size <= 120 * MiB

\* file_size_mb <= 50, with file_size_mb = size / (1024 * 1024)
FitsTelegram(size) == size <= 50 * MiB

\* lines 100-103: os.path.getsize(file_path), which can raise OSError
YtGetSize ==
    /\ pc = "yt_getsize"
    /\ \/ \E size \in Sizes :
            /\ file_size' = size
            /\ log' = Append(log, Event("getsize", TRUE, None))
            /\ pc' = IF FitsTelegram(size) THEN "yt_send" ELSE "yt_large"
            /\ UNCHANGED <<exc, caught>>
       \/ /\ log' = Append(log, Event("getsize", FALSE, None))
          /\ exc' = "OSError"
          /\ caught' = TRUE
          /\ pc' = "yt_except"
          /\ UNCHANGED file_size
    /\ UNCHANGED <<GOOGLE_DRIVE_FOLDER_ID, credentials_file, token_pickle, call, handler, update, nreq, disk, newer,
                   chat, processing_msg, file_path, result, telegram_sent,
                   file_id, escaped>>

\* AfterDelivery without the test of the folder identifier
AfterDeliveryAlwaysCloud(folder) == "yt_uploading"

\* line 121: the cloud branch is taken only with a folder identifier
AfterDelivery(folder) == IF folder # "" THEN "yt_uploading" ELSE "yt_final"

\* YtSend without the inner try block: a failing reply_audio reaches the
\* except clause of the handler
YtSendAborts ==
    /\ pc = "yt_send"
    /\ \/ /\ chat' = Append(chat, [kind |-> "audio", text |-> result])
          /\ log' = Append(log, Event("reply_audio", TRUE, result))
          /\ telegram_sent' = TRUE
          /\ pc' = IF GOOGLE_DRIVE_FOLDER_ID # "" THEN "yt_uploading" ELSE "yt_final"
          /\ UNCHANGED <<exc, caught>>
       \/ /\ log' = Append(log, Event("reply_audio", FALSE, result))
          /\ exc' = "TimedOut"
          /\ caught' = TRUE
          /\ pc' = "yt_except"
          /\ UNCHANGED <<chat, telegram_sent>>
    /\ UNCHANGED <<GOOGLE_DRIVE_FOLDER_ID, credentials_file, token_pickle, call, handler, update, nreq, disk, newer,
                   processing_msg, file_path, result, file_size, file_id,
                   escaped>>

\* lines 105-114: open the file and reply_audio; a failure is logged only
YtSend ==
    /\ pc = "yt_send"
    /\ \/ /\ chat' = Append(chat, [kind |-> "audio", text |-> result])
          /\ log' = Append(log, Event("reply_audio", TRUE, result))
          /\ telegram_sent' = TRUE
       \/ /\ log' = Append(log, Event("reply_audio", FALSE, result))
          /\ UNCHANGED <<chat, telegram_sent>>
    /\ pc' = AfterDelivery(GOOGLE_DRIVE_FOLDER_ID)
    /\ UNCHANGED <<GOOGLE_DRIVE_FOLDER_ID, credentials_file, token_pickle, call, handler, update, nreq, disk, newer,
                   processing_msg, file_path, result, file_size, file_id, exc,
                   caught, escaped>>

\* lines 115-118
YtLarge ==
    /\ pc = "yt_large"
    /\ edit_text(MsgLargeDriveOnly, AfterDelivery(GOOGLE_DRIVE_FOLDER_ID), "yt_except")
    /\ UNCHANGED <<GOOGLE_DRIVE_FOLDER_ID, credentials_file, token_pickle, call, handler, update, nreq, disk, newer,
                   locals, escaped>>

\* line 122
YtUploading ==
    /\ pc = "yt_uploading"
    /\ edit_text(MsgUploading, "yt_upload", "yt_except")
    /\ UNCHANGED <<GOOGLE_DRIVE_FOLDER_ID, credentials_file, token_pickle, call, handler, update, nreq, disk, newer,
                   locals, escaped>>

\* lines 124-128
YtUpload ==
    /\ pc = "yt_upload"
    /\ \E u \in upload_to_drive(file_path, disk, token_pickle, credentials_file) :
        /\ file_id' = u.file_id
        /\ token_pickle' = u.cache
        /\ log' = log \o u.calls
                       \o <<Event("upload_to_drive", u.file_id # "None", None)>>
    /\ pc' = "yt_final"
    /\ UNCHANGED <<GOOGLE_DRIVE_FOLDER_ID, credentials_file, call, handler, update, nreq, disk, newer,
                   chat, processing_msg, file_path, result, file_size,
                   telegram_sent, exc, caught, escaped>>

\* FinalText reporting both deliveries whenever the upload succeeded
FinalTextBothOnUpload(folder, id, sent) ==
    IF folder # ""
    THEN IF id # "None" THEN MsgBoth ELSE MsgUploadFailed(sent)
    ELSE IF sent THEN MsgSentOk ELSE MsgTooLarge

\* FinalText reporting a direct delivery without looking at telegram_sent
FinalTextIgnoresSent(folder, id, sent) ==
    IF folder # ""
    THEN IF id # "None"
         THEN IF sent THEN MsgBoth ELSE MsgDriveOnly
         ELSE MsgUploadFailed(sent)
    ELSE MsgSentOk

\* lines 121-156: the text of the last status edit of the URL flow
FinalText(folder, id, sent) ==
    IF folder # ""
    THEN IF id # "None"
         THEN IF sent THEN MsgBoth ELSE MsgDriveOnly
         ELSE MsgUploadFailed(sent)
    ELSE IF sent THEN MsgSentOk ELSE MsgTooLarge

YtFinal ==
    /\ pc = "yt_final"
    /\ edit_text(FinalText(GOOGLE_DRIVE_FOLDER_ID, file_id, telegram_sent),
                 "yt_cleanup", "yt_except")
    /\ UNCHANGED <<GOOGLE_DRIVE_FOLDER_ID, credentials_file, token_pickle, call, handler, update, nreq, disk, newer,
                   locals, escaped>>

\* os.remove(path) in a try block that swallows the exception: the file is
\* removed, or the call fails and the file stays
os_remove(path) ==
    \/ /\ disk' = disk \ {path}
       /\ newer' = newer \ {path}
       /\ log' = Append(log, Event("os.remove", TRUE, None))
    \/ /\ log' = Append(log, Event("os.remove", FALSE, None))
       /\ UNCHANGED <<disk, newer>>

\* YtCleanup without the inner try block: a failed removal raises into the
\* except clause of the handler
YtCleanupPropagates ==
    /\ pc = "yt_cleanup"
    /\ \/ /\ disk' = disk \ {file_path}
          /\ newer' = newer \ {file_path}
          /\ log' = Append(log, Event("os.remove", TRUE, None))
          /\ pc' = "done"
          /\ UNCHANGED <<exc, caught>>
       \/ /\ log' = Append(log, Event("os.remove", FALSE, None))
          /\ exc' = "OSError"
          /\ caught' = TRUE
          /\ pc' = "yt_except"
          /\ UNCHANGED <<disk, newer>>
    /\ UNCHANGED <<GOOGLE_DRIVE_FOLDER_ID, credentials_file, token_pickle, call, handler, update, nreq, chat,
                   processing_msg, file_path, result, file_size, telegram_sent,
                   file_id, escaped>>

\* lines 158-162
YtCleanup ==
    /\ pc = "yt_cleanup"
    /\ os_remove(file_path)
    /\ pc' = "done"
    /\ UNCHANGED <<GOOGLE_DRIVE_FOLDER_ID, credentials_file, token_pickle, call, handler, update, nreq, chat, locals,
                   exc, caught, escaped>>

\* the except clause of both flows: the error text is written to the
\* progress message; an exception of this edit leaves the handler
except_clause ==
    \/ /\ chat' = [chat EXCEPT ![processing_msg].text = MsgError(exc)]
       /\ log' = Append(log, Event("edit_text", TRUE, MsgError(exc)))
       /\ UNCHANGED <<exc, escaped>>
    \/ /\ log' = Append(log, Event("edit_text", FALSE, MsgError(exc)))
       /\ exc' = "TimedOut"
       /\ escaped' = TRUE
       /\ UNCHANGED chat

\* lines 164-166
YtExcept ==
    /\ pc = "yt_except"
    /\ except_clause
    /\ pc' = "done"
    /\ UNCHANGED <<GOOGLE_DRIVE_FOLDER_ID, credentials_file, token_pickle, call, handler, update, nreq, disk, newer,
                   locals, caught>>


(* ---------------------------- handle_document ------------------------ *)
\* lines 171-183: the progress message is created, outside the try block
DocReply ==
    /\ pc = "doc_entry"
    /\ IF update.file_name = None
       THEN /\ pc' = "done"
            /\ UNCHANGED <<chat, log, exc, escaped, processing_msg>>
       ELSE /\ reply_text(MsgDocDownloading, "doc_get_file")
            /\ processing_msg' = IF escaped' THEN processing_msg ELSE Len(chat')
    /\ UNCHANGED <<GOOGLE_DRIVE_FOLDER_ID, credentials_file, token_pickle, call, handler, update, nreq, disk, newer,
                   file_path, result, file_size, telegram_sent, file_id, caught>>

\* line 187: context.bot.get_file(document.file_id)
DocGetFile ==
    /\ pc = "doc_get_file"
    /\ \/ /\ log' = Append(log, Event("get_file", TRUE, None))
          /\ pc' = "doc_download"
          /\ UNCHANGED <<exc, caught>>
       \/ /\ log' = Append(log, Event("get_file", FALSE, None))
          /\ exc' = "TimedOut"
          /\ caught' = TRUE
          /\ pc' = "doc_except"
    /\ UNCHANGED <<GOOGLE_DRIVE_FOLDER_ID, credentials_file, token_pickle, call, handler, update, nreq, disk, newer,
                   chat, locals, escaped>>

\* lines 190-193: the document is written to downloads/<file_name>
DocDownload ==
    /\ pc = "doc_download"
    /\ \/ /\ file_path' = update.file_name
          /\ file_size' = update.file_size
          /\ disk' = disk \cup {update.file_name}
          /\ \E n \in BOOLEAN : newer' = IF n THEN {update.file_name} ELSE {}
          /\ log' = log \o Written(update.file_name, disk)
                       \o <<Event("download_to_drive", TRUE, None)>>
          /\ pc' = "doc_uploading"
          /\ UNCHANGED <<exc, caught>>
       \/ /\ log' = Append(log, Event("download_to_drive", FALSE, None))
          /\ exc' = "TimedOut"
          /\ caught' = TRUE
          /\ pc' = "doc_except"
          /\ UNCHANGED <<file_path, file_size, disk, newer>>
    /\ UNCHANGED <<GOOGLE_DRIVE_FOLDER_ID, credentials_file, token_pickle, call, handler, update, nreq, chat,
                   processing_msg, result, telegram_sent, file_id, escaped>>

\* line 198: the upload is called only with a folder identifier
DocAfterStatus(folder) == IF folder # "" THEN "doc_upload" ELSE "doc_final"

\* line 195
DocUploading ==
    /\ pc = "doc_uploading"
    /\ edit_text(MsgUploading, DocAfterStatus(GOOGLE_DRIVE_FOLDER_ID), "doc_except")
    /\ UNCHANGED <<GOOGLE_DRIVE_FOLDER_ID, credentials_file, token_pickle, call, handler, update, nreq, disk, newer,
                   locals, escaped>>

\* lines 199-203
DocUpload ==
    /\ pc = "doc_upload"
    /\ \E u \in upload_to_drive(file_path, disk, token_pickle, credentials_file) :
        /\ file_id' = u.file_id
        /\ token_pickle' = u.cache
        /\ log' = log \o u.calls
                       \o <<Event("upload_to_drive", u.file_id # "None", None)>>
    /\ pc' = "doc_final"
    /\ UNCHANGED <<GOOGLE_DRIVE_FOLDER_ID, credentials_file, call, handler, update, nreq, disk, newer,
                   chat, processing_msg, file_path, result, file_size,
                   telegram_sent, exc, caught, escaped>>

\* lines 198-220: the text of the last status edit of the document flow
DocFinalText(folder, id) ==
    IF folder # ""
    THEN IF id # "None" THEN MsgDocUploaded ELSE MsgDocUploadFailed
    ELSE MsgDriveDisabled

DocFinal ==
    /\ pc = "doc_final"
    /\ edit_text(DocFinalText(GOOGLE_DRIVE_FOLDER_ID, file_id),
                 "doc_cleanup", "doc_except")
    /\ UNCHANGED <<GOOGLE_DRIVE_FOLDER_ID, credentials_file, token_pickle, call, handler, update, nreq, disk, newer,
                   locals, escaped>>

\* lines 222-226
DocCleanup ==
    /\ pc = "doc_cleanup"
    /\ os_remove(file_path)
    /\ pc' = "done"
    /\ UNCHANGED <<GOOGLE_DRIVE_FOLDER_ID, credentials_file, token_pickle, call, handler, update, nreq, chat, locals,
                   exc, caught, escaped>>

\* lines 228-230
DocExcept ==
    /\ pc = "doc_except"
    /\ except_clause
    /\ pc' = "done"
    /\ UNCHANGED <<GOOGLE_DRIVE_FOLDER_ID, credentials_file, token_pickle, call, handler, update, nreq, disk, newer,
                   locals, caught>>

(* ---------------------------- specification -------------------------- *)
Next ==
    \/ Dispatch
    \/ start
    \/ help_command
    \/ handle_unknown
    \/ YtIgnore
    \/ YtReply
    \/ YtDownload
    \/ YtDownloadFailed
    \/ YtSending
    \/ YtGetSize
    \/ YtSend
    \/ YtLarge
    \/ YtUploading
    \/ YtUpload
    \/ YtFinal
    \/ YtCleanup
    \/ YtExcept
    \/ DocReply
    \/ DocGetFile
    \/ DocDownload
    \/ DocUploading
    \/ DocUpload
    \/ DocFinal
    \/ DocCleanup
    \/ DocExcept

Spec == Init /\ [][Next]_vars

TypeOK ==
    /\ GOOGLE_DRIVE_FOLDER_ID \in {"", "folder"}
    /\ nreq \in 0..MaxRequests
    /\ disk \subseteq Mp3Names \cup DocNames
    /\ newer \subseteq disk
    /\ processing_msg \in 0..Len(chat)
    /\ telegram_sent \in BOOLEAN
    /\ file_id \in {"None", "file1"}



(* ------------------------- reading the history ----------------------- *)
InFlow == handler \in {"handle_youtube_link", "handle_document"}
InUrlFlow == handler = "handle_youtube_link"
Finished == pc = "done"
CloudConfigured == GOOGLE_DRIVE_FOLDER_ID # ""

\* the size is at most the 50 MiB threshold of the delivery policy
WithinThreshold(size) == size <= 52428800

Calls(op) == {i \in DOMAIN log : log[i].op = op}
OkCalls(op) == {i \in Calls(op) : log[i].ok}
FailedCalls(op) == {i \in Calls(op) : ~log[i].ok}

\* a local file was produced for this update
Acquired == OkCalls("download_audio") \cup OkCalls("download_to_drive") # {}

\* the text the progress message shows
ProgressText == chat[processing_msg].text

\* the last edit that was applied to the progress message
LastEdit == CHOOSE i \in OkCalls("edit_text") : \A j \in OkCalls("edit_text") : j <= i

\* texts that end a flow: an outcome of the delivery policy, a failed
\* download, the outcome of a document upload, or the generic error
TerminalHeads ==
    {Head(MsgBoth), Head(MsgDriveOnly), Head(MsgUploadFailed(TRUE)),
     Head(MsgUploadFailed(FALSE)), Head(MsgSentOk), Head(MsgTooLarge),
     Head(MsgDownloadFailed(None)), Head(MsgError("")), Head(MsgDocUploaded),
     Head(MsgDocUploadFailed), Head(MsgDriveDisabled)}
IsTerminal(text) == Head(text) \in TerminalHeads
TerminalEdits == {i \in OkCalls("edit_text") : IsTerminal(log[i].text)}

\* the outcome a final text of the URL flow tells the user
ReportedOutcome(text) ==
    CASE text = MsgBoth -> "both"
      [] text = MsgDriveOnly -> "cloud-only"
      [] text \in {MsgSentOk, MsgUploadFailed(TRUE)} -> "direct-only"
      [] text \in {MsgTooLarge, MsgUploadFailed(FALSE)} -> "neither"
      [] OTHER -> "none"

\* the outcome that occurred
ActualOutcome ==
    LET direct == OkCalls("reply_audio") # {}
        cloud == OkCalls("upload_to_drive") # {}
    IN  CASE direct /\ cloud -> "both"
          [] direct /\ ~cloud -> "direct-only"
          [] ~direct /\ cloud -> "cloud-only"
          [] OTHER -> "neither"

\* the outcomes the decision table allows for a size class and configuration
AllowedOutcomes(fits, cloud) ==
    CASE fits /\ cloud -> {"both", "direct-only", "cloud-only", "neither"}
      [] fits /\ ~cloud -> {"direct-only", "neither"}
      [] ~fits /\ cloud -> {"cloud-only", "neither"}
      [] OTHER -> {"neither"}

\* a URL request whose acquisition succeeded and whose handler ran to its
\* end without entering the except clause
PolicyCompleted == InUrlFlow /\ Finished /\ Acquired /\ ~caught /\ ~escaped

\* a line that names the Drive upload as what failed
MentionsDriveFailure(text) ==
    \E k \in DOMAIN text :
        text[k] \in {"upload to Drive failed (check the settings)",
                     "upload to Drive failed"}

(* -------------------------------- claims ----------------------------- *)
\* C1: when a handler of the URL or document flow has finished and a local
\* file was produced for the request, that file is no longer on disk.
C1_FileDeletedWhenFinished ==
    (InFlow /\ Finished /\ Acquired) => file_path \notin disk

\* C2: in the URL flow with a file of at most 50 MiB and a configured
\* folder, a failing reply_audio is followed by the cloud branch and not by
\* the except clause; when no other step raises, the run ends with exactly
\* one upload_to_drive call, made after the failed delivery, and with a
\* final outcome text in the progress message.
C2_DeliveryFailureDoesNotAbort ==
    (InUrlFlow /\ CloudConfigured /\ FailedCalls("reply_audio") # {}) =>
        /\ WithinThreshold(file_size)
        /\ log[Len(log)].op = "reply_audio" => pc = "yt_uploading"
        /\ Cardinality(Calls("upload_to_drive")) <= 1
        /\ (Finished /\ ~caught) =>
              /\ Cardinality(Calls("upload_to_drive")) = 1
              /\ \A i \in Calls("upload_to_drive") :
                    \A j \in FailedCalls("reply_audio") : j < i
              /\ ProgressText \in {MsgDriveOnly, MsgUploadFailed(FALSE)}

C2_Witness ==
    /\ InUrlFlow /\ Finished /\ ~caught /\ CloudConfigured
    /\ FailedCalls("reply_audio") # {}
    /\ OkCalls("upload_to_drive") # {}

\* C3: a URL request whose acquisition succeeded and that ran through the
\* delivery policy ends with a text reporting one of both, direct-only,
\* cloud-only, neither, and the one reported is among those the decision
\* table allows for the size class and the configuration; both is reported
\* only for a file of at most 50 MiB with a configured folder.
C3_OutcomeWithinDecisionTable ==
    PolicyCompleted =>
        /\ ReportedOutcome(ProgressText)
              \in AllowedOutcomes(WithinThreshold(file_size), CloudConfigured)
        /\ ReportedOutcome(ProgressText) = "both" =>
              (WithinThreshold(file_size) /\ CloudConfigured)

C3_Witness ==
    /\ PolicyCompleted
    /\ ~WithinThreshold(file_size)
    /\ CloudConfigured
    /\ ReportedOutcome(ProgressText) = "cloud-only"

\* C4: in the URL flow a file larger than 50 MiB is never passed to
\* reply_audio; with a configured folder the upload is called once, and
\* when it succeeds the user has no audio message and the final text is the
\* Drive-only text, which says the file is large.
C4_LargeFileGoesToCloudOnly ==
    (InUrlFlow /\ ~WithinThreshold(file_size)) =>
        /\ Calls("reply_audio") = {}
        /\ \A k \in DOMAIN chat : chat[k].kind # "audio"
        /\ (PolicyCompleted /\ CloudConfigured) =>
              Cardinality(Calls("upload_to_drive")) = 1
        /\ (PolicyCompleted /\ OkCalls("upload_to_drive") # {}) =>
              /\ ProgressText = MsgDriveOnly
              /\ \E k \in DOMAIN ProgressText : ProgressText[k] = "the file is large"

C4_Witness ==
    /\ PolicyCompleted
    /\ file_size = 120 * MiB
    /\ OkCalls("upload_to_drive") # {}

\* C5: without a folder identifier upload_to_drive is called by no handler;
\* a URL request with a file of at most 50 MiB whose direct delivery
\* succeeded then ends with the audio message in the chat and the text
\* 'the file was sent successfully'.
C5_NoCloudCallWithoutFolder ==
    ~CloudConfigured =>
        /\ Calls("upload_to_drive") = {}
        /\ (PolicyCompleted /\ telegram_sent) =>
              /\ WithinThreshold(file_size)
              /\ \E k \in DOMAIN chat : chat[k].kind = "audio"
              /\ ProgressText = MsgSentOk

C5_Witness ==
    /\ ~CloudConfigured
    /\ PolicyCompleted
    /\ telegram_sent
    /\ file_size = 10 * MiB

\* C6: the final text of a URL request that ran through the delivery policy
\* tells the outcome that occurred (direct delivery succeeded or not, upload
\* succeeded or not); the reported outcome is a function of the text, so
\* requests with different outcomes end with different texts.
C6_FinalTextTellsOutcome ==
    PolicyCompleted => ReportedOutcome(ProgressText) = ActualOutcome

C6_Witness ==
    /\ PolicyCompleted
    /\ ActualOutcome = "direct-only"
    /\ CloudConfigured

\* C7: when upload_to_drive was called and returned no identifier, the final
\* text of the request names the Drive upload as the step that failed.
C7_UploadFailureReported ==
    (InFlow /\ Finished /\ ~caught /\ ~escaped /\ FailedCalls("upload_to_drive") # {}) =>
        MentionsDriveFailure(ProgressText)

\* C8: a finished handler run that created a progress message applied
\* exactly one terminal edit to it, and that edit is the last edit applied.
C8_ExactlyOneFinalEdit ==
    (InFlow /\ Finished /\ processing_msg # 0) =>
        /\ Cardinality(TerminalEdits) = 1
        /\ LastEdit \in TerminalEdits

\* C9: a handler of the URL or document flow calls reply_text once for a
\* recognized link or a document and never again; the chat holds one text
\* message exactly when that call succeeded, every edit that was applied
\* changed that message, and a text that is not a supported link gets no
\* call and no message at all.
C9_OneProgressMessage ==
    InFlow =>
        /\ Cardinality(Calls("reply_text")) <= 1
        /\ Cardinality({k \in DOMAIN chat : chat[k].kind = "text"})
              = Cardinality(OkCalls("reply_text"))
        /\ (processing_msg # 0) <=> (OkCalls("reply_text") # {})
        /\ processing_msg # 0 =>
              /\ chat[processing_msg].kind = "text"
              /\ ProgressText = IF OkCalls("edit_text") = {} THEN log[1].text
                                ELSE log[LastEdit].text
        /\ (Finished /\ Route(update) = handler
              /\ (update.kind = "document" \/ is_youtube_url(strip(update.text)))) =>
              Cardinality(Calls("reply_text")) = 1
        /\ (InUrlFlow /\ ~is_youtube_url(strip(update.text))) =>
              (chat = <<>> /\ log = <<>>)

C9_Witness ==
    /\ InUrlFlow /\ Finished
    /\ Cardinality(OkCalls("edit_text")) >= 3
    /\ Len(chat) = 2

\* C10: no exception leaves a handler of the URL or document flow, and a
\* run that entered the except clause ends with the generic error text,
\* carrying the exception text, in the progress message.
C10_ExceptionsSurfacedNotPropagated ==
    InFlow =>
        /\ ~escaped
        /\ (Finished /\ caught) => ProgressText = MsgError(exc)


\* the steps in which the handler is inside the external tool or the transfer
LongSteps == {"yt_download", "yt_upload", "doc_upload"}

\* C11: while a request is inside download_audio or upload_to_drive and an
\* update is still to come, the dispatcher can take that update and start
\* its handler.
C11_NewUpdateStartsDuringLongStep ==
    (pc \in LongSteps /\ nreq < MaxRequests) => ENABLED Dispatch

\* C12: when download_audio returned a failure, it was called once, no size
\* check, direct delivery or upload is made for the request, and a run in
\* which no edit raises ends with the download-failed text followed by the
\* returned reason, unchanged.
C12_FailedAcquisitionReported ==
    (InUrlFlow /\ FailedCalls("download_audio") # {}) =>
        /\ Cardinality(Calls("download_audio")) = 1
        /\ file_path = None
        /\ \A i \in Calls("download_audio") : log[i].text = result
        /\ result \in {<<"Download error: tool failed">>,
                       <<"Unexpected error: tool crashed">>,
                       <<"Failed to extract video information">>,
                       <<"Audio file not found after download">>}
        /\ Calls("getsize") \cup Calls("reply_audio") \cup Calls("upload_to_drive") = {}
        /\ \A k \in DOMAIN chat : chat[k].kind # "audio"
        /\ (Finished /\ ~caught) =>
              /\ Cardinality(OkCalls("edit_text")) = 1
              /\ Len(ProgressText) = 1 + Len(result)
              /\ ProgressText[1] = "download failed:"
              /\ SubSeq(ProgressText, 2, Len(ProgressText)) = result

C12_Witness ==
    /\ InUrlFlow /\ Finished /\ ~caught
    /\ result = <<"Audio file not found after download">>
    /\ disk # {}

\* C13: a text that is not a command and contains a recognized link marker
\* is routed to handle_youtube_link, every update is routed to some handler,
\* and a text the classifier accepts is never answered with the static
\* reply of handle_unknown.
C13_RecognizedLinksReachAcquisition ==
    (update.kind # "none") =>
        /\ (update.kind = "text" /\ ~IsAnyCommand(update) /\ is_youtube_url(update.text))
              => handler = "handle_youtube_link"
        /\ handler # "none"
        /\ (update.kind = "text" /\ is_youtube_url(update.text))
              => \A k \in DOMAIN chat : chat[k].text # MsgUnknown


(* ------------------- the URL classifier on its own ------------------- *)
\* str.upper() on one character, to build inputs
UpperChar(c) ==
    IF \E i \in DOMAIN LowerCase : LowerCase[i] = c
    THEN UpperCase[CHOOSE i \in DOMAIN LowerCase : LowerCase[i] = c]
    ELSE c

\* the texts the classifier is applied to: a marker, the marker in upper
\* case, with one letter in upper case or with one character left out, or
\* nothing, between a short prefix and a short suffix
Pads == {<<>>, <<"x">>, <<"Y">>, <<"/">>}
Cores ==
    {<<>>}
    \cup {youtube_patterns[k] : k \in DOMAIN youtube_patterns}
    \cup {[i \in DOMAIN youtube_patterns[k] |-> UpperChar(youtube_patterns[k][i])] :
            k \in DOMAIN youtube_patterns}
    \cup UNION {{[i \in DOMAIN youtube_patterns[k] |->
                    IF i = j THEN UpperChar(youtube_patterns[k][i])
                    ELSE youtube_patterns[k][i]] :
                 j \in DOMAIN youtube_patterns[k]} : k \in DOMAIN youtube_patterns}
    \cup UNION {{SubSeq(youtube_patterns[k], 1, j - 1)
                    \o SubSeq(youtube_patterns[k], j + 1, Len(youtube_patterns[k])) :
                 j \in DOMAIN youtube_patterns[k]} : k \in DOMAIN youtube_patterns}
ClassifierInputs == {p \o c \o q : p \in Pads, c \in Cores, q \in Pads}

InitClassifier ==
    /\ GOOGLE_DRIVE_FOLDER_ID = ""
    /\ pc = "idle"
    /\ handler = "none"
    /\ update = NoUpdate
    /\ nreq = 0
    /\ disk = {}
    /\ newer = {}
    /\ chat = <<>>
    /\ processing_msg = 0
    /\ file_path = None
    /\ result = None
    /\ file_size = 0
    /\ telegram_sent = FALSE
    /\ file_id = "None"
    /\ exc = ""
    /\ caught = FALSE
    /\ escaped = FALSE
    /\ log = <<>>
    /\ token_pickle = Absent
    /\ credentials_file = FALSE
    /\ call \in {[fn |-> "is_youtube_url", arg |-> t, returned |-> FALSE, ret |-> FALSE] :
                    t \in ClassifierInputs}

\* is_youtube_url(url) is evaluated
ApplyClassifier ==
    /\ call.fn = "is_youtube_url"
    /\ ~call.returned
    /\ call' = [call EXCEPT !.returned = TRUE, !.ret = is_youtube_url(call.arg)]
    /\ UNCHANGED <<GOOGLE_DRIVE_FOLDER_ID, credentials_file, token_pickle, pc, handler, update, nreq, disk, newer,
                   chat, locals, exc, caught, escaped, log>>

NextClassifier == ApplyClassifier

SpecClassifier == InitClassifier /\ [][NextClassifier]_vars

\* the five markers, as the claim lists them
ClaimedMarkers == {
    <<"y","o","u","t","u","b","e",".","c","o","m","/","w","a","t","c","h">>,
    <<"y","o","u","t","u",".","b","e","/">>,
    <<"y","o","u","t","u","b","e",".","c","o","m","/","s","h","o","r","t","s","/">>,
    <<"y","o","u","t","u","b","e",".","c","o","m","/","v","/">>,
    <<"y","o","u","t","u","b","e",".","c","o","m","/","e","m","b","e","d","/">>}

\* two characters are equal up to the case of a letter
SameIgnoringCase(a, b) ==
    \/ a = b
    \/ \E i \in DOMAIN UpperCase : {a, b} = {UpperCase[i], LowerCase[i]}

\* marker occurs in text when the case of letters is ignored
OccursIgnoringCase(text, marker) ==
    \E i \in 1..(Len(text) - Len(marker) + 1) :
        \A k \in DOMAIN marker : SameIgnoringCase(text[i + k - 1], marker[k])

\* C14: is_youtube_url returns true exactly for the texts in which one of
\* the five markers occurs when the case of letters is ignored.
C14_ClassifierMatchesMarkers ==
    (call.fn = "is_youtube_url" /\ call.returned) =>
        (call.ret <=> \E m \in ClaimedMarkers : OccursIgnoringCase(call.arg, m))

C14_Witness ==
    /\ call.fn = "is_youtube_url" /\ call.returned
    /\ call.ret
    /\ \E i \in DOMAIN call.arg : call.arg[i] \in {"W", "V", "B"}


\* C15: the file a URL request resolved, and then delivers, uploads and
\* deletes, is the file its own tool run wrote, not a file that another
\* request left in downloads/.
C15_RequestUsesOwnFile ==
    (InUrlFlow /\ file_path # None) =>
        \E i \in Calls("write") : log[i].text = file_path

(* ------------------- download_audio on its own ----------------------- *)
\* the directories the tool can run in and what it can do in each
AllNames == Mp3Names \cup DocNames
ToolRuns == UNION {extract_info(d, nw) : d \in SUBSET AllNames, nw \in SUBSET AllNames}

InitResolve ==
    /\ GOOGLE_DRIVE_FOLDER_ID = ""
    /\ pc = "idle"
    /\ handler = "none"
    /\ update = NoUpdate
    /\ nreq = 0
    /\ disk = {}
    /\ newer = {}
    /\ chat = <<>>
    /\ processing_msg = 0
    /\ file_path = None
    /\ result = None
    /\ file_size = 0
    /\ telegram_sent = FALSE
    /\ file_id = "None"
    /\ exc = ""
    /\ caught = FALSE
    /\ escaped = FALSE
    /\ log = <<>>
    /\ token_pickle = Absent
    /\ credentials_file = FALSE
    /\ call \in {[fn |-> "download_audio", arg |-> o, returned |-> FALSE,
                  ret |-> [file_path |-> None, result |-> None]] :
                    o \in {t \in ToolRuns : t.newer \subseteq t.disk}}

\* download_audio resolves the output file after the tool run
ApplyResolve ==
    /\ call.fn = "download_audio"
    /\ ~call.returned
    /\ \E r \in download_audio(call.arg) :
          call' = [call EXCEPT !.returned = TRUE, !.ret = r]
    /\ UNCHANGED <<GOOGLE_DRIVE_FOLDER_ID, credentials_file, token_pickle, pc, handler, update, nreq, disk, newer,
                   chat, locals, exc, caught, escaped, log>>

NextResolve == ApplyResolve

SpecResolve == InitResolve /\ [][NextResolve]_vars

\* '<safe_title>.mp3' for a reported title
ExactName(title) == strip(FilterSafe(title)) \o Mp3Ext

\* the .mp3 files of d whose name contains the first 20 characters of title
SubstringMatches(title, d) ==
    {f \in d : EndsWith(f, Mp3Ext) /\ Contains(f, Prefix20(title))}

\* C16: after a successful tool run the matchers apply in order: the exact
\* name when that file exists, else a file matching the substring rule, else
\* a file matching the recency rule, else the failure.
C16_ExactNameWinsThenSubstringThenRecency ==
    (call.fn = "download_audio" /\ call.returned /\ call.arg.raised = "" /\ call.arg.info) =>
        LET title == call.arg.title
            d == call.arg.disk
            recent == {f \in d : EndsWith(f, Mp3Ext) /\ f \in call.arg.newer}
        IN  IF ExactName(title) \in d
            THEN call.ret.file_path = ExactName(title)
            ELSE IF SubstringMatches(title, d) # {}
            THEN call.ret.file_path \in SubstringMatches(title, d)
            ELSE IF recent # {}
            THEN call.ret.file_path \in recent
            ELSE call.ret.file_path = None

(* ------------------------- credential lifecycle ---------------------- *)
\* the steps of get_drive_service that touch the credential
CredentialOps ==
    {"token_cache", "refresh", "client_secrets", "run_local_server", "pickle.dump"}

\* one of those steps failed in this request
CredentialFailure == \E i \in DOMAIN log : log[i].op \in CredentialOps /\ ~log[i].ok

\* the cache was read in this request and gave a credential in state t
LoadedAs(t) == \E i \in OkCalls("token_cache") : log[i].text = t

\* every call of a comes before every call of b
Before(a, b) == \A i \in Calls(a), j \in Calls(b) : i < j

\* the steps that follow the return of the credential to build the service
\* and send the file
AfterCredential == {"build", "MediaFileUpload", "files.create", "upload_to_drive"}

\* C17: an expired cached credential with a refresh token gives one refresh
\* call and no interactive authorization, and one cache write when the
\* refresh succeeds; an absent cache or an expired credential without a
\* refresh token gives no refresh call, and one interactive authorization and
\* one cache write when the client-secret file is read and the authorization
\* succeeds. The write comes after the refresh or authorization and before
\* the service is built and used for the upload.
C17_RefreshOrAuthorizeThenWriteOnce ==
    /\ LoadedAs(<<"expired", "refresh_token">>) =>
        /\ Cardinality(Calls("refresh")) = 1
        /\ Calls("run_local_server") = {}
        /\ Calls("client_secrets") = {}
        /\ ~CredentialFailure =>
            /\ Cardinality(Calls("pickle.dump")) = 1
            /\ Before("refresh", "pickle.dump")
            /\ Calls("build") # {}
            /\ \A op \in AfterCredential : Before("pickle.dump", op)
    /\ (LoadedAs(<<"absent">>) \/ LoadedAs(<<"expired", "no refresh_token">>)) =>
        /\ Calls("refresh") = {}
        /\ ~CredentialFailure =>
            /\ Cardinality(Calls("run_local_server")) = 1
            /\ Cardinality(Calls("pickle.dump")) = 1
            /\ Before("run_local_server", "pickle.dump")
            /\ Calls("build") # {}
            /\ \A op \in AfterCredential : Before("pickle.dump", op)

\* an expired credential was refreshed and written, and the file was sent
C17_Witness ==
    /\ LoadedAs(<<"expired", "refresh_token">>)
    /\ OkCalls("refresh") # {}
    /\ OkCalls("pickle.dump") # {}
    /\ OkCalls("files.create") # {}
    /\ token_pickle = Credential(TRUE, FALSE, TRUE)

\* C18: when reading or writing the credential cache, reading the
\* client-secret file, the refresh or the authorization fails, upload_to_drive
\* starts no file upload and returns no identifier, and the handler goes on
\* with the returned value: no exception leaves upload_to_drive.
C18_CredentialFailureGivesNoUpload ==
    CredentialFailure =>
        /\ Calls("build") = {}
        /\ Calls("MediaFileUpload") = {}
        /\ Calls("files.create") = {}
        /\ file_id = "None"
        /\ Cardinality(FailedCalls("upload_to_drive")) = 1
        /\ OkCalls("upload_to_drive") = {}
        /\ \A i \in DOMAIN log :
            (log[i].op \in CredentialOps /\ ~log[i].ok) =>
                /\ i < Len(log)
                /\ log[i + 1].op = "upload_to_drive"
        /\ log[Len(log)].op = "upload_to_drive" =>
            /\ pc \in {"yt_final", "doc_final"}
            /\ exc = ""
            /\ ~caught
            /\ ~escaped

\* the write of the refreshed credential failed, the request finished with
\* the report of the failed upload
C18_Witness ==
    /\ FailedCalls("pickle.dump") # {}
    /\ OkCalls("refresh") # {}
    /\ Finished
    /\ InUrlFlow
    /\ ~caught
    /\ file_id = "None"

(* -------------------------------- cleanup ---------------------------- *)
\* C19: the removal of the local file is the last step of the request: it
\* follows the applied final status edit, nothing follows it, and whether it
\* succeeds or fails the progress message keeps the text of that edit and no
\* exception is raised into the handler.
C19_CleanupIsPostTerminal ==
    \A i \in Calls("os.remove") :
        /\ Cardinality(Calls("os.remove")) = 1
        /\ i = Len(log)
        /\ i > 1
        /\ log[i - 1].op = "edit_text"
        /\ log[i - 1].ok
        /\ IsTerminal(log[i - 1].text)
        /\ ProgressText = log[i - 1].text
        /\ Finished
        /\ exc = ""
        /\ ~caught
        /\ ~escaped

\* a removal failed after the report of a direct delivery, and the file is
\* still there
C19_Witness ==
    /\ FailedCalls("os.remove") # {}
    /\ InUrlFlow
    /\ file_path \in disk
    /\ ProgressText = MsgSentOk

(* ------------------------- "too large" wording ----------------------- *)
\* the lines of a final text that call the file large
LargeLines == {"the file is too large", "the file is large"}

\* C20: a request that ran through the delivery policy with a file within
\* the threshold ends with a text that does not call the file large.
C20_LargeTextOnlyAboveThreshold ==
    (PolicyCompleted /\ WithinThreshold(file_size)) =>
        \A k \in DOMAIN ProgressText : ProgressText[k] \notin LargeLines

(* --------------------------- valid credential ------------------------ *)
\* the refresh-token flags a loaded credential can carry
RefreshFlags == {"refresh_token", "no refresh_token"}

\* C21: when the credential loaded from the cache is valid, get_drive_service
\* makes no refresh call, reads no client-secret file, runs no interactive
\* authorization and writes no cache, and the cache still holds the
\* credential that was loaded.
C21_ValidCredentialLeftAlone ==
    \A rt \in RefreshFlags :
        LoadedAs(<<"valid", rt>>) =>
            /\ Calls("refresh") = {}
            /\ Calls("client_secrets") = {}
            /\ Calls("run_local_server") = {}
            /\ Calls("pickle.dump") = {}
            /\ ~CredentialFailure
            /\ Calls("build") # {}
            /\ token_pickle = Credential(TRUE, FALSE, rt = "refresh_token")

\* a valid credential was loaded, the file was uploaded with it and the
\* request finished
C21_Witness ==
    /\ LoadedAs(<<"valid", "refresh_token">>)
    /\ OkCalls("files.create") # {}
    /\ file_id # "None"
    /\ Finished
    /\ ~caught

====
